---- MODULE Spec2Model ----
(***************************************************************************)
(* Model of the inference-optimizer savings analyzer: the web upload       *)
(* handler (app.py: analyze_upload, analyze_data,                          *)
(* should_downgrade_to_gpt35_analysis) and the command-line analyzer       *)
(* (analyze_local.py: analyze_csv, should_downgrade).                      *)
(*                                                                         *)
(* Strings are sequences of one-character strings.  Money is an integer    *)
(* number of micro-dollars (1 USD = 1000000); every cost of the input      *)
(* domain is a multiple of 4000 micro-dollars, so that cost * 0.9,         *)
(* cost * 0.1, cost * 0.3 and cost * 0.12 are exact and no sum of them     *)
(* lies halfway between two cents.  round() is Python 3 round-half-to-even *)
(* on the exact decimal value; the representation error of binary          *)
(* floating point is not modelled.                                         *)
(***************************************************************************)
EXTENDS Integers, Sequences, FiniteSets, TLC

VARIABLES entry, file, logs, reached, outcome, raisedIn, acc, response, printed

vars == <<entry, file, logs, reached, outcome, raisedIn, acc, response, printed>>

----------------------------------------------------------------------------
(* Program constants *)

KeyLen == 50
LoadLimit == 200
VerboseLimit == 500
TokenLimit == 100
DownPreview == 60
VerbosePreview == 80
TopWeb == 10
TopCli == 5

(* Bounds of the input domain *)

MaxRows == 3
MaxGroups == 11

----------------------------------------------------------------------------
(* Strings *)

Min(a, b) == IF a < b THEN a ELSE b

\* s[:n]
Prefix(s, n) == SubSeq(s, 1, Min(n, Len(s)))

UpperChars == <<"A","B","C","D","E","F","G","H","I","J","K","L","M",
                "N","O","P","Q","R","S","T","U","V","W","X","Y","Z">>
LowerChars == <<"a","b","c","d","e","f","g","h","i","j","k","l","m",
                "n","o","p","q","r","s","t","u","v","w","x","y","z">>

LowerChar(c) ==
    IF \E i \in 1..Len(UpperChars) : UpperChars[i] = c
    THEN LowerChars[CHOOSE i \in 1..Len(UpperChars) : UpperChars[i] = c]
    ELSE c

\* str.lower()
Lower(s) == [i \in 1..Len(s) |-> LowerChar(s[i])]

\* str.startswith(q)
StartsWith(s, q) == Len(s) >= Len(q) /\ SubSeq(s, 1, Len(q)) = q

\* q in s
Contains(s, q) ==
    \E i \in 1..(Len(s) - Len(q) + 1) : SubSeq(s, i, i + Len(q) - 1) = q

\* the character class [\d\+\-\*/\s]
ArithChars == {"0","1","2","3","4","5","6","7","8","9",
               "+","-","*","/"," ","\t","\n"}

\* re.match(r'^[\d\+\-\*/\s]+$', s)
ArithMatch(s) == Len(s) > 0 /\ \A i \in 1..Len(s) : s[i] \in ArithChars

WhatIs == <<"w","h","a","t"," ","i","s">>
WhatAre == <<"w","h","a","t"," ","a","r","e">>
HowDo == <<"h","o","w"," ","d","o">>
Why == <<"w","h","y">>
When == <<"w","h","e","n">>
Who == <<"w","h","o">>
Where == <<"w","h","e","r","e">>
Translate == <<"t","r","a","n","s","l","a","t","e">>
Translation == <<"t","r","a","n","s","l","a","t","i","o","n">>
Gpt4 == <<"g","p","t","-","4">>
Ellipsis == <<".",".",".">>

WebPrefixes == {WhatIs, HowDo, Why, When, Who, Where}

CliPrefixes == {WhatIs, WhatAre, HowDo, Why, When, Who, Where}

\* the web predicate without its arithmetic rule
should_downgrade_no_arithmetic(log) ==
    LET prompt == Lower(log.prompt)
        tokens == log.tokens
    IN  \/ tokens < TokenLimit
        \/ \E q \in WebPrefixes : StartsWith(prompt, q)
        \/ Contains(prompt, Translate) \/ Contains(prompt, Translation)

\* app.py should_downgrade_to_gpt35_analysis(log)
should_downgrade_to_gpt35_analysis(log) ==
    LET prompt == Lower(log.prompt)
        tokens == log.tokens
    IN  \/ tokens < TokenLimit
        \/ \E q \in WebPrefixes : StartsWith(prompt, q)
        \/ Contains(prompt, Translate) \/ Contains(prompt, Translation)
        \/ ArithMatch(prompt)

\* the command-line predicate with the prefixes of the web predicate
should_downgrade_web_prefixes(prompt, tokens) ==
    LET prompt_lower == Lower(prompt)
    IN  \/ tokens < TokenLimit
        \/ \E q \in WebPrefixes : StartsWith(prompt_lower, q)
        \/ Contains(prompt_lower, Translate) \/ Contains(prompt_lower, Translation)
        \/ ArithMatch(prompt_lower)

\* analyze_local.py should_downgrade(prompt, tokens)
should_downgrade(prompt, tokens) ==
    LET prompt_lower == Lower(prompt)
    IN  \/ tokens < TokenLimit
        \/ \E q \in CliPrefixes : StartsWith(prompt_lower, q)
        \/ Contains(prompt_lower, Translate) \/ Contains(prompt_lower, Translation)
        \/ ArithMatch(prompt_lower)

\* 'gpt-4' in log['model'].lower()
IsGpt4(log) == Contains(Lower(log.model), Gpt4)

----------------------------------------------------------------------------
(* Money *)

\* x rounded to a multiple of q, ties to even (x >= 0)
RoundTo(x, q) ==
    LET n == x \div q
        r == x - n * q
    IN  IF 2 * r < q THEN n * q
        ELSE IF 2 * r > q THEN (n + 1) * q
        ELSE IF n % 2 = 0 THEN n * q ELSE (n + 1) * q

\* round(x, 2) and round(x, 4) of an amount in micro-dollars
Round2(x) == RoundTo(x, 10000)
Round4(x) == RoundTo(x, 100)

\* cost * 0.9, cost * 0.1, cost * 0.3, total_cost * 0.12
RoutingSaving(c) == (c * 9) \div 10
NewCost(c) == c \div 10
VerboseSaving(c) == (c * 3) \div 10
BatchSaving(c) == (c * 12) \div 100

RECURSIVE SumSeq(_)
SumSeq(s) == IF s = <<>> THEN 0 ELSE Head(s) + SumSeq(Tail(s))

\* the indices i of s with P[i], in order
RECURSIVE FilterIdx(_, _)
FilterIdx(n, keep) ==
    IF n = 0 THEN <<>>
    ELSE IF n \in keep THEN Append(FilterIdx(n - 1, keep), n)
    ELSE FilterIdx(n - 1, keep)

\* the stable ascending order: reverse=True left out
SortAsc(keys) ==
    LET n == Len(keys)
        rank == <<>> \o [i \in 1..n |-> 1 + Cardinality({j \in 1..n :
                    keys[j] < keys[i] \/ (keys[j] = keys[i] /\ j < i)})]
    IN  [p \in 1..n |-> CHOOSE i \in 1..n : rank[i] = p]

\* the sequence s with its elements evaluated
List(s) == <<>> \o s

\* list.sort(key=..., reverse=True) / sorted(..., reverse=True): the stable
\* descending order of the indices of keys
SortDesc(keys) ==
    LET n == Len(keys)
        rank == List([i \in 1..n |-> 1 + Cardinality({j \in 1..n :
                    keys[j] > keys[i] \/ (keys[j] = keys[i] /\ j < i)})])
    IN  [p \in 1..n |-> CHOOSE i \in 1..n : rank[i] = p]

----------------------------------------------------------------------------
(* The passes shared by both analyzers *)

\* the whole prompt as the key
FingerprintWholePrompt(log) == log.prompt

\* log['prompt'][:50]
Fingerprint(log) == Prefix(log.prompt, KeyLen)

\* Counter(prompts)[prompt], prompts = [log['prompt'][:50] for log in logs]
CountOf(ls, prompt) ==
    Cardinality({j \in 1..Len(ls) : Fingerprint(ls[j]) = prompt})

\* the keys of Counter(prompts) with count > 1, in the Counter's order (that
\* of first occurrence), each named by the index of its first record
DuplicateKeys(ls) ==
    FilterIdx(Len(ls), {i \in 1..Len(ls) :
        /\ \A j \in 1..(i - 1) : Fingerprint(ls[j]) # Fingerprint(ls[i])
        /\ CountOf(ls, Fingerprint(ls[i])) > 1})

\* the first record in input order with the key, scanning from record j
RECURSIVE FirstFrom(_, _, _)
FirstFrom(ls, prompt, j) ==
    IF Fingerprint(ls[j]) = prompt THEN j ELSE FirstFrom(ls, prompt, j + 1)

FirstMatch(ls, prompt) == FirstFrom(ls, prompt, 1)

\* matching_logs[0]['cost'] / next(log['cost'] for log in logs if ...)
OriginalCost(ls, prompt) == ls[FirstMatch(ls, prompt)].cost

\* original_cost * (count - 1)
GroupSavings(ls, prompt) == OriginalCost(ls, prompt) * (CountOf(ls, prompt) - 1)

\* cache_savings after the loop over the duplicate groups
CacheSavings(ls) ==
    LET d == DuplicateKeys(ls)
    IN  SumSeq([g \in 1..Len(d) |-> GroupSavings(ls, Fingerprint(ls[d[g]]))])

\* total_cost = sum(float(log['cost']) for log in logs)
TotalCost(ls) == SumSeq([i \in 1..Len(ls) |-> ls[i].cost])

\* a prompt of exactly 500 characters counted as verbose
IsVerboseFrom500(log) == Len(log.prompt) >= VerboseLimit

\* len(log['prompt']) > 500
IsVerbose(log) == Len(log.prompt) > VerboseLimit

VerboseIdx(ls) == FilterIdx(Len(ls), {i \in 1..Len(ls) : IsVerbose(ls[i])})

\* sum(cost * 0.3 for the verbose records)
PromptSavings(ls) ==
    LET v == VerboseIdx(ls)
    IN  SumSeq([k \in 1..Len(v) |-> VerboseSaving(ls[v[k]].cost)])

----------------------------------------------------------------------------
(* app.py analyze_data *)

\* duplicate_prompts after the sort, before the [:10]
WebDuplicates(ls) ==
    LET d == DuplicateKeys(ls)
        item(g) == LET prompt == Fingerprint(ls[d[g]])
                   IN  [prompt |-> prompt,
                        count |-> CountOf(ls, prompt),
                        savings |-> Round2(GroupSavings(ls, prompt)),
                        cost_per_call |-> Round4(OriginalCost(ls, prompt))]
        unsorted == List([g \in 1..Len(d) |-> item(g)])
        order == SortDesc(List([g \in 1..Len(d) |-> unsorted[g].savings]))
    IN  [p \in 1..Len(d) |-> unsorted[order[p]]]

WebDowngradeIdx(ls) ==
    FilterIdx(Len(ls), {i \in 1..Len(ls) :
        IsGpt4(ls[i]) /\ should_downgrade_to_gpt35_analysis(ls[i])})

\* routing_savings after the loop
WebRoutingSavings(ls) ==
    LET d == WebDowngradeIdx(ls)
    IN  SumSeq([k \in 1..Len(d) |-> RoutingSaving(ls[d[k]].cost)])

\* downgradeable_calls after the sort, before the [:10]
WebDowngradeable(ls) ==
    LET d == WebDowngradeIdx(ls)
        item(k) == LET log == ls[d[k]]
                   IN  [prompt |-> Prefix(log.prompt, DownPreview),
                        current_cost |-> Round4(log.cost),
                        new_cost |-> Round4(NewCost(log.cost)),
                        savings |-> Round4(RoutingSaving(log.cost)),
                        reason |-> IF log.tokens < TokenLimit
                                   THEN "Simple query" ELSE "Short prompt"]
        unsorted == List([k \in 1..Len(d) |-> item(k)])
        order == SortDesc(List([k \in 1..Len(d) |-> unsorted[k].savings]))
    IN  [p \in 1..Len(d) |-> unsorted[order[p]]]

\* verbose_prompts after the sort, before the [:10]
WebVerbose(ls) ==
    LET v == VerboseIdx(ls)
        item(k) == LET log == ls[v[k]]
                   IN  [prompt_preview |-> Prefix(log.prompt, VerbosePreview) \o Ellipsis,
                        length |-> Len(log.prompt),
                        cost |-> log.cost,
                        timestamp |-> log.timestamp]
        unsorted == List([k \in 1..Len(v) |-> item(k)])
        order == SortDesc(List([k \in 1..Len(v) |-> unsorted[k].cost]))
    IN  [p \in 1..Len(v) |-> unsorted[order[p]]]

\* round((total_savings/total_cost)*100, 1) if total_cost > 0 else 0,
\* in tenths of a percent
WebPercent(total_savings, total_cost) ==
    IF total_cost > 0
    THEN LET scaled == total_savings * 1000
             n == scaled \div total_cost
             r == scaled - n * total_cost
         IN  IF 2 * r < total_cost THEN n
             ELSE IF 2 * r > total_cost THEN n + 1
             ELSE IF n % 2 = 0 THEN n ELSE n + 1
    ELSE 0

\* the empty report with a percent that is not 0
EmptyReportFullPercent ==
    [total_cost |-> 0, total_calls |-> 0, cache_savings |-> 0,
     routing_savings |-> 0, prompt_opt_savings |-> 0, batch_savings |-> 0,
     total_savings |-> 0, savings_percent |-> 1000,
     duplicate_prompts |-> <<>>, downgradeable_calls |-> <<>>,
     verbose_prompts |-> <<>>, batchable_calls |-> <<>>]

\* the report returned when logs is empty
EmptyReport ==
    [total_cost |-> 0, total_calls |-> 0, cache_savings |-> 0,
     routing_savings |-> 0, prompt_opt_savings |-> 0, batch_savings |-> 0,
     total_savings |-> 0, savings_percent |-> 0,
     duplicate_prompts |-> <<>>, downgradeable_calls |-> <<>>,
     verbose_prompts |-> <<>>, batchable_calls |-> <<>>]

ZeroAcc ==
    [total_cost |-> 0, cache_savings |-> 0, routing_savings |-> 0,
     prompt_opt_savings |-> 0, batch_savings |-> 0, total_savings |-> 0]

\* if not logs
IsEmptyLogs(ls) == Len(ls) = 0

\* the local accumulators of analyze_data / analyze_csv before the report is
\* built (routing is the routing_savings of the caller's predicate)
Accumulators(ls, routing) ==
    LET total_cost == TotalCost(ls)
        cache_savings == CacheSavings(ls)
        prompt_opt_savings == PromptSavings(ls)
        batch_savings == BatchSaving(total_cost)
    IN  [total_cost |-> total_cost,
         cache_savings |-> cache_savings,
         routing_savings |-> routing,
         prompt_opt_savings |-> prompt_opt_savings,
         batch_savings |-> batch_savings,
         total_savings |-> cache_savings + routing + prompt_opt_savings + batch_savings]

\* the dictionary analyze_data returns for records with numeric costs
analyze_data(ls) ==
    IF IsEmptyLogs(ls) THEN EmptyReport
    ELSE LET a == Accumulators(ls, WebRoutingSavings(ls))
         IN  [total_cost |-> Round2(a.total_cost),
              total_calls |-> Len(ls),
              cache_savings |-> Round2(a.cache_savings),
              routing_savings |-> Round2(a.routing_savings),
              prompt_opt_savings |-> Round2(a.prompt_opt_savings),
              batch_savings |-> Round2(a.batch_savings),
              total_savings |-> Round2(a.total_savings),
              savings_percent |-> WebPercent(a.total_savings, a.total_cost),
              duplicate_prompts |-> Prefix(WebDuplicates(ls), TopWeb),
              downgradeable_calls |-> Prefix(WebDowngradeable(ls), TopWeb),
              verbose_prompts |-> Prefix(WebVerbose(ls), TopWeb),
              batchable_calls |-> <<>>]

----------------------------------------------------------------------------
(* analyze_local.py analyze_csv, after the records are loaded *)

CliDowngradeIdx(ls) ==
    FilterIdx(Len(ls), {i \in 1..Len(ls) :
        IsGpt4(ls[i]) /\ should_downgrade(ls[i].prompt, ls[i].tokens)})

\* routing_savings after the loop
CliRoutingSavings(ls) ==
    LET d == CliDowngradeIdx(ls)
    IN  SumSeq([k \in 1..Len(d) |-> RoutingSaving(ls[d[k]].cost)])

\* sorted(duplicates.items(), key=lambda x: x[1], reverse=True), before the [:5]
CliDuplicates(ls) ==
    LET d == DuplicateKeys(ls)
        item(g) == LET prompt == Fingerprint(ls[d[g]])
                   IN  [prompt |-> prompt, count |-> CountOf(ls, prompt)]
        unsorted == List([g \in 1..Len(d) |-> item(g)])
        order == SortDesc(List([g \in 1..Len(d) |-> unsorted[g].count]))
    IN  [p \in 1..Len(d) |-> unsorted[order[p]]]

\* sorted(downgradeable, key=lambda x: x['savings'], reverse=True), before the [:5]
CliDowngradeable(ls) ==
    LET d == CliDowngradeIdx(ls)
        item(k) == LET log == ls[d[k]]
                   IN  [prompt |-> Prefix(log.prompt, DownPreview),
                        cost |-> log.cost,
                        savings |-> RoutingSaving(log.cost)]
        unsorted == List([k \in 1..Len(d) |-> item(k)])
        order == SortDesc(List([k \in 1..Len(d) |-> unsorted[k].savings]))
    IN  [p \in 1..Len(d) |-> unsorted[order[p]]]

\* total_savings/total_cost*100 raises ZeroDivisionError
CliPercentRaises(total_cost) == total_cost = 0

\* f"{total_savings/total_cost*100:.1f}", in tenths of a percent
CliPercent(total_savings, total_cost) ==
    LET scaled == total_savings * 1000
        n == scaled \div total_cost
        r == scaled - n * total_cost
    IN  IF 2 * r < total_cost THEN n
        ELSE IF 2 * r > total_cost THEN n + 1
        ELSE IF n % 2 = 0 THEN n ELSE n + 1

\* what analyze_csv prints for a non-empty list of records: the four
\* sections, and the summary lines 150-152 (line 151 is not printed when
\* its percent raises)
CliOutput(ls) ==
    LET a == Accumulators(ls, CliRoutingSavings(ls))
        d == DuplicateKeys(ls)
    IN  [total_calls |-> Len(ls),
         total_cost |-> Round2(a.total_cost),
         n_duplicates |-> Len(d),
         duplicate_calls |->
             SumSeq([g \in 1..Len(d) |-> CountOf(ls, Fingerprint(ls[d[g]])) - 1]),
         cache_savings |-> Round2(a.cache_savings),
         sorted_dups |-> Prefix(CliDuplicates(ls), TopCli),
         n_downgradeable |-> Len(CliDowngradeIdx(ls)),
         routing_savings |-> Round2(a.routing_savings),
         sorted_down |-> Prefix(CliDowngradeable(ls), TopCli),
         n_verbose |-> Len(VerboseIdx(ls)),
         prompt_savings |-> Round2(a.prompt_opt_savings),
         batch_savings |-> Round2(a.batch_savings),
         summary |->
             IF CliPercentRaises(a.total_cost) THEN <<>>
             ELSE <<[total_savings |-> Round2(a.total_savings),
                     percent |-> CliPercent(a.total_savings, a.total_cost),
                     new_spend |-> Round2(a.total_cost - a.total_savings)]>>]

----------------------------------------------------------------------------
(* The loaders *)

Nan == <<"n","a","n">>

\* str(row.get('prompt', ''))[:200]; pandas reads an empty cell as NaN
CsvPrompt(p) == IF p = <<>> THEN Nan ELSE Prefix(p, LoadLimit)

\* float(row.get('cost', 0)) raises ValueError on a cell that is no number
CsvRowRaises(row) == row.costKind = "bad"

\* the dictionary appended for one CSV row (both analyzers)
CsvRecord(row) ==
    [timestamp |-> row.timestamp,
     prompt |-> CsvPrompt(row.prompt),
     model |-> row.model,
     tokens |-> row.ctx + row.gen,
     cost |-> IF row.costKind = "absent" THEN 0 ELSE row.cost,
     costKind |-> "num"]

\* json.loads(line): the object of the line as it is
JsonRecord(line) ==
    [timestamp |-> line.timestamp,
     prompt |-> line.prompt,
     model |-> line.model,
     tokens |-> line.ctx + line.gen,
     cost |-> line.cost,
     costKind |-> line.costKind]

\* float(log['cost']) in analyze_data raises KeyError or ValueError
AnalyzerRaises(ls) == \E i \in 1..Len(ls) : ls[i].costKind # "num"

----------------------------------------------------------------------------
(* The handlers *)

Result(ls, r, o, w, a, resp, out) ==
    [logs |-> ls, reached |-> r, outcome |-> o, raisedIn |-> w,
     acc |-> a, response |-> resp, printed |-> out]

\* app.py analyze_upload: an exception that leaves the handler is "uncaught"
analyze_upload(f) ==
    LET rows == f.entries
        csv == [i \in 1..Len(rows) |-> CsvRecord(rows[i])]
        json == [i \in 1..Len(rows) |-> JsonRecord(rows[i])]
        call(ls) ==
            IF IsEmptyLogs(ls)
            THEN Result(ls, TRUE, "report", "none", ZeroAcc, <<analyze_data(ls)>>, <<>>)
            ELSE IF AnalyzerRaises(ls)
            THEN Result(ls, TRUE, "uncaught", "analyzer", ZeroAcc, <<>>, <<>>)
            ELSE Result(ls, TRUE, "report", "none",
                        Accumulators(ls, WebRoutingSavings(ls)),
                        <<analyze_data(ls)>>, <<>>)
    IN  IF f.ext = "csv"
        THEN IF ~f.parsable
             THEN Result(<<>>, FALSE, "uncaught", "read", ZeroAcc, <<>>, <<>>)
             ELSE IF \E i \in 1..Len(rows) : CsvRowRaises(rows[i])
             THEN Result(<<>>, FALSE, "uncaught", "loader", ZeroAcc, <<>>, <<>>)
             ELSE call(csv)
        ELSE IF f.ext = "json"
        THEN IF ~f.parsable
             THEN Result(<<>>, FALSE, "uncaught", "loader", ZeroAcc, <<>>, <<>>)
             ELSE call(json)
        ELSE call(<<>>)

\* analyze_local.py analyze_csv
analyze_csv(f) ==
    LET rows == f.entries
        ls == [i \in 1..Len(rows) |-> CsvRecord(rows[i])]
    IN  IF ~f.parsable
        THEN Result(<<>>, FALSE, "diagnostic", "read", ZeroAcc, <<>>, <<>>)
        ELSE IF \E i \in 1..Len(rows) : CsvRowRaises(rows[i])
        THEN Result(<<>>, FALSE, "uncaught", "loader", ZeroAcc, <<>>, <<>>)
        ELSE IF IsEmptyLogs(ls)
        THEN Result(ls, FALSE, "diagnostic", "none", ZeroAcc, <<>>, <<>>)
        ELSE LET a == Accumulators(ls, CliRoutingSavings(ls))
             IN  IF CliPercentRaises(a.total_cost)
                 THEN Result(ls, TRUE, "uncaught", "percent", a, <<>>, <<CliOutput(ls)>>)
                 ELSE Result(ls, TRUE, "report", "none", a, <<>>, <<CliOutput(ls)>>)

----------------------------------------------------------------------------
(* The input domain *)

Pad(c, n) == [i \in 1..n |-> c]

\* one entry of a file: a CSV row with its columns prompt, model,
\* n_context_tokens_total (ctx), n_generated_tokens_total (gen) and cost, or
\* the JSON line of the same values, whose tokens field is ctx + gen.
\* costKind tells whether the cost is a number, is absent or is no number
Entry(p, m, ctx, gen, c, k) ==
    [timestamp |-> "t", prompt |-> p, model |-> m,
     ctx |-> ctx, gen |-> gen, cost |-> c, costKind |-> k]

ModelGpt4 == <<"g","p","t","-","4">>
ModelGpt4Turbo == <<"G","P","T","-","4","-","t","u","r","b","o">>
ModelGpt35 == <<"g","p","t","-","3",".","5","-","t","u","r","b","o">>

PHello == <<"h","e","l","l","o">>
PWhatIs == <<"W","h","a","t"," ","i","s"," ","x">>
PWhatAre == <<"W","h","a","t"," ","a","r","e"," ","x">>
PWhatAreTr == WhatAre \o <<" ">> \o Translation
PWhy == <<"W","H","Y">>
PTranslate == <<"a"," ">> \o Translate
PTranslation == <<"a"," ">> \o Translation
PArith == <<"2"," ","+"," ","2">>
PNotArith == <<"2"," ","+"," ","a">>

SinglePrompts ==
    {<<>>, PHello, PWhatIs, PWhatAre, PWhatAreTr, PWhy, PTranslate,
     PTranslation, PArith, PNotArith,
     Pad("a", LoadLimit), Pad("a", LoadLimit + 1),
     Pad("a", VerboseLimit), Pad("a", VerboseLimit + 1)}

\* one record: every prompt, model, token count and cost
SingleEntries ==
    {Entry(p, m, 49, g, c, "num") :
        p \in SinglePrompts, m \in {ModelGpt4, ModelGpt4Turbo, ModelGpt35},
        g \in {50, 51}, c \in {0, 60000}}

\* one record whose cost is missing or is no number
DefectEntries ==
    {Entry(PHello, ModelGpt4, 49, 50, 0, k) : k \in {"absent", "bad"}}

\* two prompts that agree on their first 50 characters, and a third
PLongA == Pad("k", KeyLen) \o <<"a">>
PLongB == Pad("k", KeyLen) \o <<"b">>

\* the records of the short logs: cheap calls to gpt-4 and dearer calls
\* to gpt-3.5-turbo
SmallEntries ==
    {Entry(PLongA, ModelGpt4, 49, 50, 4000, "num"),
     Entry(PLongB, ModelGpt4, 49, 50, 4000, "num"),
     Entry(PHello, ModelGpt4, 49, 50, 4000, "num"),
     Entry(PLongA, ModelGpt4, 49, 50, 0, "num"),
     Entry(PLongA, ModelGpt35, 100, 50, 4000, "num"),
     Entry(PLongB, ModelGpt35, 100, 50, 60000, "num"),
     Entry(PHello, ModelGpt35, 100, 50, 60000, "num"),
     Entry(PHello, ModelGpt35, 100, 50, 4000, "num")}

RECURSIVE SeqsUpTo(_, _)
SeqsUpTo(S, n) ==
    IF n = 0 THEN {<<>>}
    ELSE LET shorter == SeqsUpTo(S, n - 1)
         IN  shorter \cup {Append(s, e) : s \in {t \in shorter : Len(t) = n - 1}, e \in S}

\* many groups: group g has cnt[g] records and the cost cst[g]; its prompts
\* are short and equal, or 501 characters long and different in their last
\* character only
BulkPrompt(g, i, long) ==
    IF long THEN Pad(LowerChars[g], VerboseLimit) \o <<LowerChars[i]>>
    ELSE <<LowerChars[g], "?">>

RECURSIVE BulkEntries(_, _, _, _)
BulkEntries(k, cnt, cst, long) ==
    IF k = 0 THEN <<>>
    ELSE BulkEntries(k - 1, cnt, cst, long)
         \o [i \in 1..cnt[k] |->
                Entry(BulkPrompt(k, i, long), ModelGpt4, 49, 50, cst[k], "num")]

BulkCounts(k) ==
    {[g \in 1..k |-> 2], [g \in 1..k |-> IF g % 2 = 0 THEN 3 ELSE 2],
     [g \in 1..k |-> IF g % 3 = 0 THEN 1 ELSE 2]}

BulkCosts(k) ==
    {[g \in 1..k |-> 4000 * g], [g \in 1..k |-> 4000 * (k + 1 - g)],
     [g \in 1..k |-> 4000]}

BulkLogs ==
    UNION {{BulkEntries(k, cnt, cst, long) :
                cnt \in BulkCounts(k), cst \in BulkCosts(k), long \in BOOLEAN} :
           k \in 1..MaxGroups}

Files ==
    {[ext |-> x, parsable |-> TRUE, entries |-> e] :
        x \in {"csv", "json"},
        e \in SeqsUpTo(SmallEntries, MaxRows) \cup {<<s>> : s \in SingleEntries}
                \cup BulkLogs}
    \cup {[ext |-> x, parsable |-> b, entries |-> <<s>>] :
        x \in {"csv", "json", "txt"}, b \in BOOLEAN,
        s \in DefectEntries \cup {Entry(PHello, ModelGpt4, 49, 50, 60000, "num")}}

----------------------------------------------------------------------------
(* The state machine: one request, handled by one of the two entry points *)

Init ==
    /\ entry = "none"
    /\ file \in Files
    /\ logs = <<>>
    /\ reached = FALSE
    /\ outcome = "pending"
    /\ raisedIn = "none"
    /\ acc = ZeroAcc
    /\ response = <<>>
    /\ printed = <<>>

Handle(r) ==
    /\ logs' = r.logs
    /\ reached' = r.reached
    /\ outcome' = r.outcome
    /\ raisedIn' = r.raisedIn
    /\ acc' = r.acc
    /\ response' = r.response
    /\ printed' = r.printed
    /\ UNCHANGED file

\* POST /analyze
AnalyzeUpload ==
    /\ entry = "none"
    /\ entry' = "web"
    /\ Handle(analyze_upload(file))

\* python analyze_local.py <file>: the file is read as CSV whatever its
\* name; a line-delimited JSON file is not given to it here
AnalyzeCsv ==
    /\ entry = "none"
    /\ file.ext # "json"
    /\ entry' = "cli"
    /\ Handle(analyze_csv(file))

Next == AnalyzeUpload \/ AnalyzeCsv

Spec == Init /\ [][Next]_vars

----------------------------------------------------------------------------
(* Properties *)

Report == response[1]

Output == printed[1]

WebReported == entry = "web" /\ outcome = "report"

CliAnalysed == entry = "cli" /\ reached

Abs(x) == IF x < 0 THEN -x ELSE x

RECURSIVE SumOver(_, _)
SumOver(S, f) ==
    IF S = {} THEN 0
    ELSE LET x == CHOOSE y \in S : TRUE IN f[x] + SumOver(S \ {x}, f)

Records == 1..Len(logs)

\* C1: the total_savings field of the returned report equals the sum of its
\* cache_savings, routing_savings, prompt_opt_savings and batch_savings fields
C1_TotalIsSumOfFields ==
    WebReported =>
        Report.total_savings =
            Report.cache_savings + Report.routing_savings
            + Report.prompt_opt_savings + Report.batch_savings

\* C2: when total_cost is 0 the percent is 0 and nothing raises, in the web
\* analyzer and in the command-line analyzer; when total_cost > 0 the percent
\* is 100 * total_savings / total_cost to the nearest tenth
IsNearestTenth(p, total_savings, total_cost) ==
    2 * Abs(1000 * total_savings - p * total_cost) <= total_cost

C2_PercentNeverFaults ==
    /\ WebReported /\ Len(logs) > 0 =>
          IF acc.total_cost = 0 THEN Report.savings_percent = 0
          ELSE IsNearestTenth(Report.savings_percent, acc.total_savings, acc.total_cost)
    /\ CliAnalysed =>
          /\ raisedIn # "percent"
          /\ outcome = "report"
          /\ Len(Output.summary) = 1
          /\ IF acc.total_cost = 0 THEN Output.summary[1].percent = 0
             ELSE IsNearestTenth(Output.summary[1].percent,
                                 acc.total_savings, acc.total_cost)

\* C3: analyze_data on an empty sequence of records returns, without raising,
\* a report whose totals, savings and percent are 0 and whose lists are empty
C3_EmptyInputZeroReport ==
    entry = "web" /\ reached /\ logs = <<>> =>
        /\ outcome = "report"
        /\ raisedIn = "none"
        /\ Len(response) = 1
        /\ Report.total_cost = 0
        /\ Report.total_calls = 0
        /\ Report.cache_savings = 0
        /\ Report.routing_savings = 0
        /\ Report.prompt_opt_savings = 0
        /\ Report.batch_savings = 0
        /\ Report.total_savings = 0
        /\ Report.savings_percent = 0
        /\ Report.duplicate_prompts = <<>>
        /\ Report.downgradeable_calls = <<>>
        /\ Report.verbose_prompts = <<>>

C3_Witness ==
    /\ entry = "web" /\ reached /\ logs = <<>>
    /\ file.ext = "csv" /\ outcome = "report"

\* C4: records are keyed by the first 50 characters of the prompt; a key is a
\* duplicate group exactly when more than one record has it; the group's
\* count is the number of its records, its per-call cost the cost of its
\* first record, its savings that cost * (count - 1); cache_savings is the
\* sum over all the groups, listed or not
KeyOf(i) == SubSeq(logs[i].prompt, 1, Min(KeyLen, Len(logs[i].prompt)))

Members(i) == {j \in Records : KeyOf(j) = KeyOf(i)}

\* the first record of every key that more than one record has
GroupHeads ==
    {i \in Records : Cardinality(Members(i)) > 1 /\ \A j \in Members(i) : i <= j}

HeadSavings == [i \in GroupHeads |-> logs[i].cost * (Cardinality(Members(i)) - 1)]

IsFindingOf(d, i) ==
    /\ d.prompt = KeyOf(i)
    /\ d.count = Cardinality(Members(i))
    /\ d.cost_per_call = Round4(logs[i].cost)
    /\ d.savings = Round2(HeadSavings[i])

C4_DuplicateGroups ==
    /\ WebReported /\ Len(logs) > 0 =>
        /\ acc.cache_savings = SumOver(GroupHeads, HeadSavings)
        /\ Report.cache_savings = Round2(SumOver(GroupHeads, HeadSavings))
        /\ Len(Report.duplicate_prompts) = Min(TopWeb, Cardinality(GroupHeads))
        /\ \A p \in 1..Len(Report.duplicate_prompts) :
              \E i \in GroupHeads : IsFindingOf(Report.duplicate_prompts[p], i)
        /\ \A p, q \in 1..Len(Report.duplicate_prompts) :
              p # q => Report.duplicate_prompts[p].prompt # Report.duplicate_prompts[q].prompt
    /\ CliAnalysed =>
        /\ acc.cache_savings = SumOver(GroupHeads, HeadSavings)
        /\ Output.cache_savings = Round2(SumOver(GroupHeads, HeadSavings))
        /\ Output.n_duplicates = Cardinality(GroupHeads)
        /\ \A p \in 1..Len(Output.sorted_dups) :
              \E i \in GroupHeads :
                  /\ Output.sorted_dups[p].prompt = KeyOf(i)
                  /\ Output.sorted_dups[p].count = Cardinality(Members(i))

\* more groups than are listed, and two records of one group whose prompts
\* differ after character 50 and whose group has a positive saving
C4_Witness ==
    /\ WebReported
    /\ Cardinality(GroupHeads) > TopWeb
    /\ \E i \in GroupHeads : \E j \in Members(i) :
          logs[i].prompt # logs[j].prompt /\ HeadSavings[i] > 0

\* C5 (as claimed): the listed duplicate groups are the 10 (web) or 5
\* (command line) groups of largest savings, in non-increasing order of savings
HeadOfKey(k) == CHOOSE i \in GroupHeads : KeyOf(i) = k

LowerPrompt(i) == Lower(logs[i].prompt)

HasAt(s, q, at) ==
    at + Len(q) - 1 <= Len(s) /\ \A k \in 1..Len(q) : s[at + k - 1] = q[k]

Has(s, q) == \E at \in 1..Len(s) : HasAt(s, q, at)

OnlyArithmetic(s) ==
    s # <<>> /\ \A k \in 1..Len(s) :
        s[k] \in {"0","1","2","3","4","5","6","7","8","9"}
                 \cup {"+", "-", "*", "/"} \cup {" ", "\t", "\n"}

Downgradeable(i, prefixes) ==
    /\ Has(Lower(logs[i].model), <<"g","p","t","-","4">>)
    /\ \/ logs[i].tokens < 100
       \/ \E q \in prefixes : HasAt(LowerPrompt(i), q, 1)
       \/ Has(LowerPrompt(i), Translate)
       \/ Has(LowerPrompt(i), Translation)
       \/ OnlyArithmetic(LowerPrompt(i))

WebQuestions == {WhatIs, HowDo, Why, When, Who, Where}

CliQuestions == WebQuestions \cup {WhatAre}

RoutingOf(flagged) == SumOver(flagged, [i \in flagged |-> (9 * logs[i].cost) \div 10])

C6_Downgradeable ==
    /\ WebReported /\ Len(logs) > 0 =>
        LET flagged == {i \in Records : Downgradeable(i, WebQuestions)}
            l == Report.downgradeable_calls
        IN  /\ acc.routing_savings = RoutingOf(flagged)
            /\ Report.routing_savings = Round2(RoutingOf(flagged))
            /\ Len(l) = Min(TopWeb, Cardinality(flagged))
            /\ \A p \in 1..Len(l) : \E i \in flagged :
                  /\ l[p].prompt = Prefix(logs[i].prompt, DownPreview)
                  /\ l[p].current_cost = Round4(logs[i].cost)
                  /\ l[p].new_cost = Round4(logs[i].cost \div 10)
                  /\ l[p].savings = Round4((9 * logs[i].cost) \div 10)
    /\ CliAnalysed =>
        LET flagged == {i \in Records : Downgradeable(i, CliQuestions)}
        IN  /\ acc.routing_savings = RoutingOf(flagged)
            /\ Output.routing_savings = Round2(RoutingOf(flagged))
            /\ Output.n_downgradeable = Cardinality(flagged)

\* an arithmetic prompt of a gpt-4 call of 100 tokens is flagged
C6_Witness ==
    /\ WebReported
    /\ Len(logs) = 1
    /\ logs[1].prompt = PArith /\ logs[1].tokens >= 100 /\ logs[1].cost > 0
    /\ logs[1].model = ModelGpt4Turbo
    /\ Len(Report.downgradeable_calls) = 1
    /\ acc.routing_savings > 0

\* C7: a record is verbose exactly when its prompt is longer than 500
\* characters; prompt_opt_savings is the sum of cost * 0.3 over all verbose
\* records, listed or not; the listed findings are in descending order of cost
C7_Verbose ==
    LET verbose == {i \in Records : Len(logs[i].prompt) >= 501}
        total == SumOver(verbose, [i \in verbose |-> (3 * logs[i].cost) \div 10])
    IN  /\ WebReported /\ Len(logs) > 0 =>
            LET l == Report.verbose_prompts
            IN  /\ acc.prompt_opt_savings = total
                /\ Report.prompt_opt_savings = Round2(total)
                /\ Len(l) = Min(TopWeb, Cardinality(verbose))
                /\ \A p \in 1..Len(l) : \E i \in verbose :
                      /\ l[p].length = Len(logs[i].prompt)
                      /\ l[p].cost = logs[i].cost
                /\ \A p \in 1..(Len(l) - 1) : l[p].cost >= l[p + 1].cost
                /\ \A i \in verbose : l[1].cost >= logs[i].cost
        /\ CliAnalysed =>
            /\ acc.prompt_opt_savings = total
            /\ Output.prompt_savings = Round2(total)
            /\ Output.n_verbose = Cardinality(verbose)

\* more verbose records than are listed, of different costs
C7_Witness ==
    /\ WebReported
    /\ Cardinality({i \in Records : Len(logs[i].prompt) = 501}) > TopWeb
    /\ Len(Report.verbose_prompts) = TopWeb
    /\ Report.verbose_prompts[1].cost > Report.verbose_prompts[TopWeb].cost
    /\ acc.prompt_opt_savings > 0

\* C8: every record that reaches the analyzer has a prompt of at most 200
\* characters, on every loading path
C8_PromptsTruncated ==
    reached => \A i \in Records : Len(logs[i].prompt) <= 200

CannotBeLoaded ==
    \/ ~file.parsable
    \/ file.ext \notin {"csv", "json"}
    \/ \E i \in 1..Len(file.entries) : file.entries[i].costKind = "bad"
    \/ file.ext = "json" /\ \E i \in 1..Len(file.entries) : file.entries[i].costKind = "absent"

\* C9: an input that cannot be loaded into well-formed records ends in a
\* failure of its own (a diagnostic of the command line, an error response
\* of the upload), and neither reaches the analysis nor gets a report
\* (an exception that leaves a handler is counted as its failure outcome)
C9_MalformedIsDistinctFailure ==
    CannotBeLoaded =>
        /\ entry = "web" => outcome = "uncaught" /\ ~reached /\ raisedIn # "analyzer"
        /\ entry = "cli" => outcome \in {"diagnostic", "uncaught"} /\ ~reached

\* C10: whenever the web predicate holds the command-line predicate holds,
\* and the two differ exactly when tokens >= 100 and the lower-cased prompt
\* starts with "what are", contains neither "translate" nor "translation"
\* and is no arithmetic expression
C10_PredicatesDifferOnWhatAre ==
    reached =>
        \A i \in Records :
            LET web == should_downgrade_to_gpt35_analysis(logs[i])
                cli == should_downgrade(logs[i].prompt, logs[i].tokens)
            IN  /\ web => cli
                /\ web # cli <=>
                      /\ logs[i].tokens >= 100
                      /\ HasAt(LowerPrompt(i), <<"w","h","a","t"," ","a","r","e">>, 1)
                      /\ ~Has(LowerPrompt(i), Translate)
                      /\ ~Has(LowerPrompt(i), Translation)
                      /\ ~OnlyArithmetic(LowerPrompt(i))

\* a "What are" prompt of 100 tokens: flagged by the command line only
C10_Witness ==
    /\ reached
    /\ \E i \in Records :
          /\ logs[i].prompt = PWhatAre /\ logs[i].tokens = 100
          /\ should_downgrade(logs[i].prompt, logs[i].tokens)
          /\ ~should_downgrade_to_gpt35_analysis(logs[i])

====
